---- MODULE Spec2Model ----
(***************************************************************************)
(* Model of the performance analytics engine of src/generic_tools.py:      *)
(* generate_top_level_summary and get_periodic_performance_summary.        *)
(*                                                                         *)
(* Number representation.  A float64 of the program is modelled by a       *)
(* record [k, n, d, r, x]:                                                 *)
(*   k = "num"   the exact rational n/d (d > 0, lowest terms)              *)
(*   k = "nan"   IEEE NaN                                                  *)
(*   k = "inf", "ninf"  IEEE +infinity, -infinity                          *)
(*   k = "sqrt"  the product (n/d) * sqrt(x[1]/x[2]), kept exactly         *)
(*   k = "pow"   (1 + n/d)^252 - 1 times 100, kept exactly                 *)
(*   k = "G1"/"G2" the sample skewness / excess kurtosis of a sample whose *)
(*               scaled deviations from the mean are x, kept exactly       *)
(*   r = the number of decimals the value has been rounded to (NoRound if  *)
(*       it has not been rounded).                                         *)
(* Arithmetic is exact (no binary rounding error); a cumulative return is  *)
(* an integer count of 1/Scale.                                            *)
(***************************************************************************)
EXTENDS Integers, Sequences, FiniteSets, TLC

\* ------------------------------------------------------------------ bounds
MaxLen == 4
TwinLen == 3
YearLen == 8

\* ------------------------------------------------------- program constants
INITIAL_CAPITAL == 100000
TRADING_DAYS_PER_YEAR == 252
AggregateTradingDays == 252
Scale == 200
NoRound == 0 - 1

\* --------------------------------------------------------- integer helpers
Abs(i) == IF i < 0 THEN -i ELSE i

Sign(i) == IF i < 0 THEN -1 ELSE IF i > 0 THEN 1 ELSE 0

RECURSIVE GCD(_, _)
GCD(a, b) ==
    IF b = 0 THEN (IF a < 0 THEN -a ELSE a)
    ELSE GCD(b, a % (IF b < 0 THEN -b ELSE b))

RECURSIVE Pow10(_)
Pow10(p) == IF p = 0 THEN 1 ELSE 10 * Pow10(p - 1)

\* the sequence f as an explicit tuple (evaluated once, element by element)
Tuple(f) == f \o <<>>

\* ------------------------------------------------------------ float values
F(kind, num, den) == [k |-> kind, n |-> num, d |-> den, r |-> NoRound, x |-> <<>>]

NaN == F("nan", 0, 1)

NegInf == F("ninf", 0, 1)

PosInf == F("inf", 0, 1)

Num(num, den) ==
    LET g == IF den < 0 THEN -GCD(num, den) ELSE GCD(num, den)
    IN  [k |-> "num", n |-> num \div g, d |-> den \div g, r |-> NoRound, x |-> <<>>]

Int2F(i) == Num(i, 1)

Zero == Num(0, 1)

IsNum(a) == a.k = "num"

IsNaN(a) == a.k = "nan"

IsZero(a) == a.k = "num" /\ a.n = 0

\* the sign of a float that is not NaN
SignOf(a) == IF a.k = "inf" THEN 1 ELSE IF a.k = "ninf" THEN -1 ELSE Sign(a.n)

\* the order of a float that is not NaN among -inf < rationals < +inf
Rank(a) == IF a.k = "inf" THEN 1 ELSE IF a.k = "ninf" THEN -1 ELSE 0

\* a + b, a - b, a * b, a / b on floats that are rationals, NaN or infinite
FAdd(a, b) ==
    IF a.k = "num" /\ b.k = "num"
    THEN IF a.d = b.d THEN Num(a.n + b.n, a.d)
         ELSE LET g == GCD(a.d, b.d)
              IN  Num(a.n * (b.d \div g) + b.n * (a.d \div g), (a.d \div g) * b.d)
    ELSE IF IsNaN(a) \/ IsNaN(b) THEN NaN
    ELSE IF Rank(a) + Rank(b) = 0 THEN NaN
    ELSE IF Rank(a) + Rank(b) > 0 THEN PosInf ELSE NegInf

FNeg(a) ==
    CASE a.k = "num" -> F("num", -a.n, a.d)
      [] a.k = "inf" -> NegInf
      [] a.k = "ninf" -> PosInf
      [] OTHER -> a

FSub(a, b) == FAdd(a, FNeg(b))

FMul(a, b) ==
    IF a.k = "num" /\ b.k = "num"
    THEN IF a.n = 0 \/ b.n = 0 THEN F("num", 0, 1)
         ELSE LET g1 == GCD(a.n, b.d)
                  g2 == GCD(b.n, a.d)
              IN  F("num", (a.n \div g1) * (b.n \div g2), (a.d \div g2) * (b.d \div g1))
    ELSE IF IsNaN(a) \/ IsNaN(b) THEN NaN
    ELSE IF SignOf(a) * SignOf(b) = 0 THEN NaN
    ELSE IF SignOf(a) * SignOf(b) > 0 THEN PosInf ELSE NegInf

\* numpy float division: x/0 is +-inf, 0/0 is NaN; no exception
FDiv(a, b) ==
    IF a.k = "num" /\ b.k = "num"
    THEN IF b.n = 0
         THEN (IF a.n < 0 THEN NegInf ELSE IF a.n > 0 THEN PosInf ELSE NaN)
         ELSE FMul(a, F("num", Sign(b.n) * b.d, Abs(b.n)))
    ELSE IF IsNaN(a) \/ IsNaN(b) THEN NaN
    ELSE IF Rank(a) # 0 /\ Rank(b) # 0 THEN NaN
    ELSE IF Rank(b) # 0 THEN Zero
    ELSE IF SignOf(a) * (IF b.n < 0 THEN -1 ELSE 1) > 0 THEN PosInf ELSE NegInf

\* a < b; any comparison with NaN is False
FLess(a, b) ==
    IF a.k = "num" /\ b.k = "num"
    THEN IF a.d = b.d THEN a.n < b.n
         ELSE LET g == GCD(a.d, b.d)
              IN  a.n * (b.d \div g) < b.n * (a.d \div g)
    ELSE IF IsNaN(a) \/ IsNaN(b) THEN FALSE
    ELSE Rank(a) < Rank(b)

\* x > 0 on any float; NaN > 0 is False
FPositive(a) ==
    CASE a.k = "num" -> a.n > 0
      [] a.k = "sqrt" -> a.n > 0
      [] a.k = "inf" -> TRUE
      [] OTHER -> FALSE

\* the square root of the rational q >= 0; exactly 0 when q = 0
Sqrt(q) ==
    IF IsNaN(q) THEN NaN
    ELSE IF q.n = 0 THEN Zero
    ELSE [F("sqrt", 1, 1) EXCEPT !.x = <<q.n, q.d>>]

\* Python round(value, places): round-half-even on the exact value;
\* nan and inf are returned as they are
PyRound(a, places) ==
    IF IsNum(a)
    THEN LET p == Pow10(places)
             g == GCD(p, a.d)
             b == a.d \div g
             m == a.n * (p \div g)
             q == m \div b
             rem == m % b
             up == IF 2 * rem > b THEN 1
                   ELSE IF 2 * rem < b THEN 0
                   ELSE q % 2
         IN  [Num(q + up, p) EXCEPT !.r = places]
    ELSE [a EXCEPT !.r = places]

\* ------------------------------------------------------- pandas operations
\* A Series of returns is a sequence of integers, each a count of 1/Scale.
Units(i) == Num(i, Scale)

RECURSIVE Sum(_)
Sum(s) == IF s = <<>> THEN 0 ELSE Head(s) + Sum(Tail(s))

\* Series.min() / Series.max() of a non-empty Series without NaN
RECURSIVE Min(_)
Min(s) ==
    IF Len(s) = 1 THEN Head(s)
    ELSE LET rest == Min(Tail(s)) IN IF rest < Head(s) THEN rest ELSE Head(s)

RECURSIVE Max(_)
Max(s) ==
    IF Len(s) = 1 THEN Head(s)
    ELSE LET rest == Max(Tail(s)) IN IF rest > Head(s) THEN rest ELSE Head(s)

\* Series.cumsum()
RECURSIVE CumSumFrom(_, _)
CumSumFrom(acc, s) ==
    IF s = <<>> THEN <<>> ELSE <<acc + Head(s)>> \o CumSumFrom(acc + Head(s), Tail(s))

CumSum(s) == CumSumFrom(0, s)

\* Series.cummax()
RECURSIVE CumMaxFrom(_, _)
CumMaxFrom(m, s) ==
    IF s = <<>> THEN <<>>
    ELSE LET h == IF Head(s) > m THEN Head(s) ELSE m
         IN  <<h>> \o CumMaxFrom(h, Tail(s))

CumMax(s) == IF s = <<>> THEN <<>> ELSE <<Head(s)>> \o CumMaxFrom(Head(s), Tail(s))

\* Series.diff().fillna(first): element 0 of diff() is NaN and is filled with
\* the first cumulative value, element i > 0 is s[i] - s[i-1]
\* diff() with the first element filled with 0 instead of iloc[0]
DiffFillFirst_zero(s) ==
    Tuple([i \in 1..Len(s) |-> IF i = 1 THEN 0 ELSE s[i] - s[i - 1]])

DiffFillFirst(s) ==
    Tuple([i \in 1..Len(s) |-> IF i = 1 THEN s[1] ELSE s[i] - s[i - 1]])

\* Series.mean()
Mean(s) == Num(Sum(s), Len(s) * Scale)

\* the deviations from the mean, times Len(s) * Scale: Len(s) * s[i] - Sum(s)
Deviations(s) ==
    LET total == Sum(s)
    IN  Tuple([i \in 1..Len(s) |-> Len(s) * s[i] - total])

RECURSIVE SumSq(_)
SumSq(s) == IF s = <<>> THEN 0 ELSE Head(s) * Head(s) + SumSq(Tail(s))

\* the sum of the squared deviations from the mean, times (Len(s) * Scale)^2
SumSqDev(s) == SumSq(Deviations(s))

\* Series.std(ddof=1): NaN for fewer than 2 samples
StdDdof1(s) ==
    IF Len(s) < 2 THEN NaN
    ELSE Sqrt(Num(SumSqDev(s), Len(s) * Len(s) * (Len(s) - 1) * Scale * Scale))

\* adjusted Fisher-Pearson skewness G1 and excess kurtosis G2 of a
\* non-constant sample, kept exactly by the sample's deviations
G1(s) == [F("G1", 0, 1) EXCEPT !.x = Deviations(s)]

G2(s) == [F("G2", 0, 1) EXCEPT !.x = Deviations(s)]

\* Series.skew(): NaN below 3 samples, 0 when the second moment is 0
PandasSkew(s) ==
    IF Len(s) < 3 THEN NaN
    ELSE IF SumSqDev(s) = 0 THEN Zero
    ELSE G1(s)

\* Series.kurtosis(): NaN below 4 samples, 0 when the second moment is 0
PandasKurtosis(s) ==
    IF Len(s) < 4 THEN NaN
    ELSE IF SumSqDev(s) = 0 THEN Zero
    ELSE G2(s)

\* (series > 0.0).sum()
CountPositive(s) == Cardinality({i \in 1..Len(s) : s[i] > 0})

\* Series.min() on floats: NaN entries are skipped, all-NaN gives NaN
RECURSIVE FMin(_)
FMin(s) ==
    IF s = <<>> THEN NaN
    ELSE LET rest == FMin(Tail(s))
         IN  IF IsNaN(Head(s)) THEN rest
             ELSE IF IsNaN(rest) THEN Head(s)
             ELSE IF FLess(rest, Head(s)) THEN rest ELSE Head(s)

\* Series.cummax() on floats
RECURSIVE FCumMaxFrom(_, _)
FCumMaxFrom(m, s) ==
    IF s = <<>> THEN <<>>
    ELSE LET h == IF FLess(m, Head(s)) THEN Head(s) ELSE m
         IN  <<h>> \o FCumMaxFrom(h, Tail(s))

FCumMax(s) == IF s = <<>> THEN <<>> ELSE <<Head(s)>> \o FCumMaxFrom(Head(s), Tail(s))

RECURSIVE FSum(_)
FSum(s) == IF s = <<>> THEN Zero ELSE FAdd(Head(s), FSum(Tail(s)))

\* ((1.0 + mean) ** 252.0 - 1.0) * 100.0
Compound(mean) == IF IsZero(mean) THEN Zero ELSE F("pow", mean.n, mean.d)

\* mean / vol * sqrt(annual) for a positive vol = c * sqrt(v):
\* (mean / c) * sqrt(annual / v); exactly 0 when mean = 0
RatioToSqrt(mean, vol, annual) ==
    LET coefficient == FDiv(mean, Num(vol.n, vol.d))
        radicand == FMul(Int2F(annual), Num(vol.x[2], vol.x[1]))
    IN  IF IsZero(coefficient) THEN Zero
        ELSE [F("sqrt", coefficient.n, coefficient.d) EXCEPT !.x = <<radicand.n, radicand.d>>]

\* vol * sqrt(factor) for vol = c * sqrt(v), NaN or 0
ScaleSqrt(vol, factor) ==
    IF IsNaN(vol) THEN NaN
    ELSE IF IsZero(vol) THEN Zero
    ELSE LET radicand == FMul(Num(vol.x[1], vol.x[2]), Int2F(factor))
         IN  [vol EXCEPT !.x = <<radicand.n, radicand.d>>]

\* --------------------------------------------------------------- DataFrame
\* The DataFrame pnl_data is a sequence of rows [Date, PnL]: Date is the day
\* number of the row's timestamp, PnL the cumulative return in units of 1/Scale.
Columns == {"PnL"}

PnLColumn(df) == Tuple([i \in 1..Len(df) |-> df[i].PnL])

DateStr(day) == day

NoResult == [none |-> TRUE]

Raise(e) == [exc |-> e, value |-> NoResult]

Return(v) == [exc |-> "none", value |-> v]

\* --------------------------------------------- generate_top_level_summary
\* portfolio_values = initial_capital * (1.0 + cumulative_returns)
PortfolioValues(initial_capital, cumulative_returns) ==
    Tuple([i \in 1..Len(cumulative_returns) |->
        Num(initial_capital * (Scale + cumulative_returns[i]), Scale)])

\* the drawdown against the global peak instead of the running maximum
max_drawdown_pct_global_peak(portfolio_values) ==
    LET running_max == FCumMax(portfolio_values)
        peak == running_max[Len(portfolio_values)]
        drawdowns == Tuple([i \in 1..Len(portfolio_values) |->
                         FSub(FDiv(portfolio_values[i], peak), Int2F(1))])
    IN  FMul(FMin(drawdowns), Int2F(100))

max_drawdown_pct(portfolio_values) ==
    LET running_max == FCumMax(portfolio_values)
        drawdowns == Tuple([i \in 1..Len(portfolio_values) |->
                         FSub(FDiv(portfolio_values[i], running_max[i]), Int2F(1))])
    IN  FMul(FMin(drawdowns), Int2F(100))

\* the Sharpe ratio without the guard on excess_vol
aggregate_sharpe_ratio_unguarded(daily_returns, risk_free_rate) ==
    LET rf_daily == FDiv(risk_free_rate, Int2F(AggregateTradingDays))
        excess_mean == FSub(Mean(daily_returns), rf_daily)
        excess_vol == StdDdof1(daily_returns)
    IN  IF FPositive(excess_vol)
        THEN RatioToSqrt(excess_mean, excess_vol, AggregateTradingDays)
        ELSE FDiv(excess_mean, excess_vol)

\* excess_daily = daily_returns - rf_daily is the pair of the Series and the
\* scalar: its mean is mean(daily_returns) - rf_daily, and its deviations from
\* its mean, hence its std, are those of daily_returns
aggregate_sharpe_ratio(daily_returns, risk_free_rate) ==
    LET rf_daily == FDiv(risk_free_rate, Int2F(AggregateTradingDays))
        excess_mean == FSub(Mean(daily_returns), rf_daily)
        excess_vol == StdDdof1(daily_returns)
    IN  IF FPositive(excess_vol)
        THEN RatioToSqrt(excess_mean, excess_vol, AggregateTradingDays)
        ELSE Zero

generate_top_level_summary(pnl_data, pnl_column, initial_capital, risk_free_rate) ==
    IF pnl_column \notin Columns THEN Raise("ValueError")
    ELSE IF Len(pnl_data) = 0 THEN Raise("ValueError")
    ELSE
    LET cumulative_returns == PnLColumn(pnl_data)
        trading_days == Len(cumulative_returns)
        daily_returns == DiffFillFirst(cumulative_returns)
        years == Num(trading_days, AggregateTradingDays)
        total_return_pct == FMul(Units(cumulative_returns[trading_days]), Int2F(100))
        portfolio_values == PortfolioValues(initial_capital, cumulative_returns)
        final_value == portfolio_values[trading_days]
        total_pnl == FSub(final_value, Int2F(initial_capital))
        mean_daily_return == Mean(daily_returns)
        vol_daily == StdDdof1(daily_returns)
        annualized_return == Compound(mean_daily_return)
        annualized_vol == ScaleSqrt(vol_daily, AggregateTradingDays * 100 * 100)
        sharpe_ratio == aggregate_sharpe_ratio(daily_returns, risk_free_rate)
        positive_days == CountPositive(daily_returns)
        win_rate_pct == Num(positive_days * 100, trading_days)
        best_day_pct == FMul(Units(Max(daily_returns)), Int2F(100))
        worst_day_pct == FMul(Units(Min(daily_returns)), Int2F(100))
        skew_value == PandasSkew(daily_returns)
        kurtosis_value == PandasKurtosis(daily_returns)
    IN  Return([
          backtest_period |-> [
            trading_days |-> trading_days,
            years |-> PyRound(years, 2),
            start_date |-> DateStr(pnl_data[1].Date),
            end_date |-> DateStr(pnl_data[trading_days].Date)],
          capital |-> [
            initial_capital |-> initial_capital,
            final_value |-> PyRound(final_value, 2),
            total_pnl |-> PyRound(total_pnl, 2)],
          performance |-> [
            total_return_pct |-> PyRound(total_return_pct, 2),
            annualized_return_pct |-> PyRound(annualized_return, 2),
            annualized_volatility_pct |-> PyRound(annualized_vol, 2),
            sharpe_ratio |-> PyRound(sharpe_ratio, 2)],
          risk |-> [
            max_drawdown_pct |-> PyRound(max_drawdown_pct(portfolio_values), 2),
            win_rate_pct |-> PyRound(win_rate_pct, 2)],
          daily_pnl |-> [
            best_day_pct |-> PyRound(best_day_pct, 2),
            worst_day_pct |-> PyRound(worst_day_pct, 2)],
          distribution |-> [
            skewness |-> PyRound(skew_value, 2),
            kurtosis |-> PyRound(kurtosis_value, 2)]])

\* ---------------------------------------- get_periodic_performance_summary
\* scipy.stats.skew / kurtosis on a constant sample: releases before 1.9
\* give 0, later releases give NaN
ScipyConstant == {"zero", "nan"}

ScipyOnConstant(scipy_constant) == IF scipy_constant = "nan" THEN NaN ELSE Zero

\* skew(period_returns, bias=False)
ScipySkew(s, scipy_constant) ==
    IF SumSqDev(s) = 0 THEN ScipyOnConstant(scipy_constant) ELSE G1(s)

\* kurtosis(period_returns, fisher=True, bias=False)
ScipyKurtosis(s, scipy_constant) ==
    IF SumSqDev(s) = 0 THEN ScipyOnConstant(scipy_constant) ELSE G2(s)

\* the period (calendar year) a timestamp falls in
PeriodOf(day) == day \div YearLen

\* insertion of a row behind every row whose Date is not later (stable)
RECURSIVE InsertByDate(_, _)
InsertByDate(row, s) ==
    IF s = <<>> THEN <<row>>
    ELSE IF row.Date < Head(s).Date THEN <<row>> \o s
    ELSE <<Head(s)>> \o InsertByDate(row, Tail(s))

\* resample() sorts the series by timestamp with a stable sort
RECURSIVE SortByDateFrom(_, _)
SortByDateFrom(acc, s) ==
    IF s = <<>> THEN acc ELSE SortByDateFrom(InsertByDate(Head(s), acc), Tail(s))

SortByDate(s) == SortByDateFrom(<<>>, s)

\* daily_returns.resample(period): one bin per period from the earliest to the
\* latest timestamp, in chronological order, empty bins included
Resample(series) ==
    LET sorted == SortByDate(series)
        first == PeriodOf(sorted[1].Date)
        last == PeriodOf(sorted[Len(sorted)].Date)
    IN  Tuple([b \in 1..(last - first + 1) |->
            SelectSeq(sorted, LAMBDA row : PeriodOf(row.Date) = first + b - 1)])

SeriesValues(series) == Tuple([i \in 1..Len(series) |-> series[i].v])

periodic_daily_vol(period_returns) ==
    IF Len(period_returns) > 1 THEN StdDdof1(period_returns) ELSE Zero

periodic_sharpe_ratio(annualized_return, annualized_vol, risk_free_rate) ==
    IF FPositive(annualized_vol)
    THEN RatioToSqrt(FSub(annualized_return, risk_free_rate), annualized_vol, 1)
    ELSE Zero

periodic_max_drawdown(cumulative_returns) ==
    LET running_max == CumMax(cumulative_returns)
        drawdown == Tuple([i \in 1..Len(cumulative_returns) |->
                        cumulative_returns[i] - running_max[i]])
    IN  IF drawdown # <<>> THEN Units(Min(drawdown)) ELSE Zero

periodic_skew(period_returns, scipy_constant) ==
    IF Len(period_returns) > 2 THEN ScipySkew(period_returns, scipy_constant) ELSE Zero

periodic_kurtosis(period_returns, scipy_constant) ==
    IF Len(period_returns) > 3 THEN ScipyKurtosis(period_returns, scipy_constant) ELSE Zero

\* the body of the loop over the bins, for one non-empty bin
period_stats(bin, initial_capital, risk_free_rate, trading_days_per_year, scipy_constant) ==
    LET period_returns == SeriesValues(bin)
        trading_days == Len(period_returns)
        years == IF trading_days_per_year > 0
                 THEN Num(trading_days, trading_days_per_year) ELSE Zero
        cumulative_returns == CumSum(period_returns)
        total_return == Units(cumulative_returns[trading_days])
        daily_mean == Mean(period_returns)
        daily_vol == periodic_daily_vol(period_returns)
        annualized_return == FMul(daily_mean, Int2F(trading_days_per_year))
        annualized_vol == IF trading_days_per_year > 0
                          THEN ScaleSqrt(daily_vol, trading_days_per_year) ELSE Zero
        sharpe_ratio == periodic_sharpe_ratio(annualized_return, annualized_vol, risk_free_rate)
        max_drawdown == periodic_max_drawdown(cumulative_returns)
        win_rate == Num(CountPositive(period_returns), trading_days)
        best_day_pnl == Units(Max(period_returns))
        worst_day_pnl == Units(Min(period_returns))
        skew_value == periodic_skew(period_returns, scipy_constant)
        kurtosis_value == periodic_kurtosis(period_returns, scipy_constant)
    IN  [ backtest_period |-> [
            trading_days |-> trading_days,
            years |-> PyRound(years, 4),
            start_date |-> DateStr(bin[1].Date),
            end_date |-> DateStr(bin[trading_days].Date)],
          capital |-> [
            initial_capital |-> initial_capital,
            total_pnl |-> PyRound(total_return, 6)],
          performance |-> [
            total_return |-> PyRound(total_return, 6),
            annualized_return |-> PyRound(annualized_return, 6),
            annualized_volatility |-> PyRound(annualized_vol, 6),
            sharpe_ratio |-> PyRound(sharpe_ratio, 4)],
          risk |-> [
            max_drawdown |-> PyRound(max_drawdown, 6),
            win_rate |-> PyRound(win_rate, 4)],
          daily_pnl |-> [
            best_day_pnl |-> PyRound(best_day_pnl, 6),
            worst_day_pnl |-> PyRound(worst_day_pnl, 6)],
          distribution |-> [
            skewness |-> PyRound(skew_value, 4),
            kurtosis |-> PyRound(kurtosis_value, 4)]]

\* daily_returns as a Series: the rows' timestamps with the per-step returns
\* the cumulative values taken as the per-step returns (no diff)
periodic_daily_returns_cumulative(pnl_data) ==
    Tuple([i \in 1..Len(pnl_data) |-> [Date |-> pnl_data[i].Date, v |-> pnl_data[i].PnL]])

periodic_daily_returns(pnl_data) ==
    LET returns == DiffFillFirst(PnLColumn(pnl_data))
    IN  Tuple([i \in 1..Len(pnl_data) |-> [Date |-> pnl_data[i].Date, v |-> returns[i]]])

\* a loop that also skips the bins of a single sample
NonEmptyBins_skip_single(grouped) == SelectSeq(grouped, LAMBDA bin : Len(bin) > 1)

\* the bins the loop does not skip
NonEmptyBins(grouped) == SelectSeq(grouped, LAMBDA bin : bin # <<>>)

get_periodic_performance_summary(pnl_data, pnl_column, initial_capital, risk_free_rate, trading_days_per_year, scipy_constant) ==
    IF pnl_column \notin Columns THEN Raise("ValueError")
    ELSE IF Len(pnl_data) = 0 THEN Raise("IndexError")
    ELSE
    LET daily_returns == periodic_daily_returns(pnl_data)
        grouped == NonEmptyBins(Resample(daily_returns))
    IN  Return([
          resample_period |-> "YE",
          periods |-> Tuple([b \in 1..Len(grouped) |->
              period_stats(grouped[b], initial_capital, risk_free_rate,
                           trading_days_per_year, scipy_constant)])])

\* ------------------------------------------------------------------ inputs
\* cumulative value of the first row, and the per-step changes of later rows,
\* in units of 1/Scale (-Scale is a cumulative return of -100%)
FirstValues == {-Scale, 0, 1}

Steps == {-1, 0, 1}

\* timestamp of the second row relative to the first (earlier, equal, next day,
\* the period after the next), and of later rows relative to their predecessor
\* (next day, next period)
FirstGaps == {-1, 0, 1, 2 * YearLen}

Gaps == {1, YearLen}

Extend(df) ==
    LET last == df[Len(df)]
        gaps == IF Len(df) = 1 THEN FirstGaps ELSE Gaps
    IN  {Append(df, [Date |-> last.Date + g, PnL |-> last.PnL + s]) : g \in gaps, s \in Steps}

RECURSIVE FramesOfLen(_)
FramesOfLen(n) ==
    IF n = 0 THEN {<<>>}
    ELSE IF n = 1 THEN {<<[Date |-> 1, PnL |-> c]>> : c \in FirstValues}
    ELSE UNION {Extend(df) : df \in FramesOfLen(n - 1)}

Frames == UNION {FramesOfLen(n) : n \in 0..MaxLen}

\* the keyword arguments of a call.  The defaults of the signatures:
\* pnl_column = "PnL", initial_capital = INITIAL_CAPITAL, risk_free_rate = 0.02,
\* trading_days_per_year = TRADING_DAYS_PER_YEAR
DefaultRiskFreeRate == Num(4, Scale)

DefaultArgs ==
    [pnl_column |-> "PnL", initial_capital |-> INITIAL_CAPITAL,
     risk_free_rate |-> DefaultRiskFreeRate,
     trading_days_per_year |-> TRADING_DAYS_PER_YEAR]

InitialCapitals == {INITIAL_CAPITAL}

\* annual risk-free rates: the default 0.02, and 252 steps of 1/Scale (the
\* rate whose daily value is one unit of return)
RiskFreeRates == {DefaultRiskFreeRate, Num(AggregateTradingDays, Scale)}

TradingDaysPerYearValues == {TRADING_DAYS_PER_YEAR, 0}

\* a call that names a column the frame does not have, or a call on "PnL"
\* with any of the other arguments
TopLevelArgs ==
    {[DefaultArgs EXCEPT !.pnl_column = "Close"]}
    \cup {[DefaultArgs EXCEPT !.initial_capital = ic, !.risk_free_rate = rf] :
             ic \in InitialCapitals, rf \in RiskFreeRates}

PeriodicArgs ==
    {[DefaultArgs EXCEPT !.pnl_column = "Close"]}
    \cup {[DefaultArgs EXCEPT !.initial_capital = ic, !.risk_free_rate = rf,
                              !.trading_days_per_year = tdpy] :
             ic \in InitialCapitals, rf \in RiskFreeRates,
             tdpy \in TradingDaysPerYearValues}

\* the concrete scenario: cumulative values 0.01, 0.02, 0.015, 0.03, 0.025 on
\* five consecutive days, initial_capital = 100000, risk_free_rate = 0.0
Scenario == <<2, 4, 3, 6, 5>>

ScenarioValues == {Scenario[i] : i \in 1..Len(Scenario)}

\* every series of the scenario's length over the scenario's values
ScenarioFrames ==
    {Tuple([i \in 1..Len(Scenario) |-> [Date |-> i, PnL |-> c[i]]]) :
        c \in [1..Len(Scenario) -> ScenarioValues]}

ScenarioArgs == {[DefaultArgs EXCEPT !.risk_free_rate = Zero]}

\* a second series for the comparison of two calls: the rows of df with the
\* per-step return of every row outside period p changed by delta (the
\* cumulative values follow)
Deltas == {-1, 1}

RowsOutsideUpTo(df, p, i) == Cardinality({j \in 1..i : PeriodOf(df[j].Date) # p})

Variant(df, p, delta) ==
    Tuple([i \in 1..Len(df) |->
        [df[i] EXCEPT !.PnL = df[i].PnL + delta * RowsOutsideUpTo(df, p, i)]])

PeriodsOf(df) == {PeriodOf(df[i].Date) : i \in 1..Len(df)}

Variants(df) == {Variant(df, p, delta) : p \in PeriodsOf(df), delta \in Deltas}

\* ------------------------------------------------------------------- state
\* pnl_data      the caller's DataFrame
\* pc            "ready" before the call, "returned" / "raised" after it
\* fn, args      the function called and its keyword arguments
\* result        the value returned (the parsed JSON document)
\* exception     the exception raised, "none" if none
\* other_data, other_result   a second DataFrame and the value returned for it
\*               by a second call with the same arguments (used to compare two
\*               calls; empty otherwise)
VARIABLES pnl_data, pc, fn, args, result, exception, other_data, other_result

vars == <<pnl_data, pc, fn, args, result, exception, other_data, other_result>>

InitCommon ==
    /\ pc = "ready"
    /\ fn = "none"
    /\ args = DefaultArgs
    /\ result = NoResult
    /\ exception = "none"
    /\ other_result = NoResult

Init ==
    /\ pnl_data \in Frames
    /\ other_data = <<>>
    /\ InitCommon

Finish(out) ==
    /\ pc' = IF out.exc = "none" THEN "returned" ELSE "raised"
    /\ result' = out.value
    /\ exception' = out.exc
    /\ UNCHANGED pnl_data

CallTopLevel(argset) ==
    /\ pc = "ready"
    /\ fn' = "generate_top_level_summary"
    /\ \E a \in argset :
          /\ args' = a
          /\ Finish(generate_top_level_summary(
                 pnl_data, a.pnl_column, a.initial_capital, a.risk_free_rate))
    /\ UNCHANGED <<other_data, other_result>>

CallPeriodic(argset) ==
    /\ pc = "ready"
    /\ fn' = "get_periodic_performance_summary"
    /\ \E a \in argset, sc \in ScipyConstant :
          /\ args' = a
          /\ Finish(get_periodic_performance_summary(
                 pnl_data, a.pnl_column, a.initial_capital, a.risk_free_rate,
                 a.trading_days_per_year, sc))
    /\ UNCHANGED <<other_data, other_result>>

\* two calls of get_periodic_performance_summary with the same arguments in the
\* same installation, one on pnl_data and one on other_data
CallPeriodicTwice(argset) ==
    /\ pc = "ready"
    /\ fn' = "get_periodic_performance_summary"
    /\ \E a \in argset, sc \in ScipyConstant :
          /\ args' = a
          /\ Finish(get_periodic_performance_summary(
                 pnl_data, a.pnl_column, a.initial_capital, a.risk_free_rate,
                 a.trading_days_per_year, sc))
          /\ other_result' = get_periodic_performance_summary(
                 other_data, a.pnl_column, a.initial_capital, a.risk_free_rate,
                 a.trading_days_per_year, sc).value
    /\ UNCHANGED other_data

Next == CallTopLevel(TopLevelArgs) \/ CallPeriodic(PeriodicArgs)

Spec == Init /\ [][Next]_vars

\* the calls of the concrete scenario
InitScenario ==
    /\ pnl_data \in ScenarioFrames
    /\ other_data = <<>>
    /\ InitCommon

NextScenario == CallTopLevel(ScenarioArgs) \/ CallPeriodic(ScenarioArgs)

SpecScenario == InitScenario /\ [][NextScenario]_vars

\* two calls on series that agree inside one period
InitTwin ==
    /\ pnl_data \in UNION {FramesOfLen(n) : n \in 1..TwinLen}
    /\ other_data \in Variants(pnl_data)
    /\ InitCommon

NextTwin == CallPeriodicTwice(PeriodicArgs)

SpecTwin == InitTwin /\ [][NextTwin]_vars

\* ------------------------------------------------------------------ claims
Returned == pc = "returned"

TopLevel == fn = "generate_top_level_summary"

Periodic == fn = "get_periodic_performance_summary"

ColumnPresent == args.pnl_column \in Columns

\* the per-step return of row i: the first cumulative value, then the
\* difference from the previous cumulative value
StepReturn(df, i) == IF i = 1 THEN df[1].PnL ELSE df[i].PnL - df[i - 1].PnL

RowsIn(df, p) == {i \in 1..Len(df) : PeriodOf(df[i].Date) = p}

AllStepsEqual(df) == \A i \in 1..Len(df) : StepReturn(df, i) = StepReturn(df, 1)

AllStepsZero(df) == \A i \in 1..Len(df) : df[i].PnL = 0

StrictlyIncreasingDates(df) == \A i \in 2..Len(df) : df[i - 1].Date < df[i].Date

NonDecreasing(s) == \A i \in 2..Len(s) : s[i - 1] <= s[i]

\* a float that is a number <= 0 (NaN is not)
LeqZero(a) == (a.k = "num" /\ a.n <= 0) \/ a.k = "ninf"

\* the decimal num/den as round() returns it
Rounded(num, den, places) == [Num(num, den) EXCEPT !.r = places]

\* the bins of the call's periodic loop
BinsOf(df) == NonEmptyBins(Resample(periodic_daily_returns(df)))

\* C1: both functions raise ValueError (InvalidInput), and return nothing, when
\* the series is empty or the requested column is absent; on every other input
\* they return a result.
C1_InvalidInputElseResult ==
    pc # "ready" =>
        IF pnl_data = <<>> \/ ~ColumnPresent
        THEN pc = "raised" /\ exception = "ValueError"
        ELSE pc = "returned" /\ exception = "none"

\* C2: with fewer than 3 samples the reported skewness is 0 and with fewer than
\* 4 samples the reported kurtosis is 0, in the aggregate summary and in every
\* periodic bucket record.
C2_SmallSampleDefaults ==
    Returned =>
        /\ TopLevel =>
              /\ Len(pnl_data) < 3 => IsZero(result.distribution.skewness)
              /\ Len(pnl_data) < 4 => IsZero(result.distribution.kurtosis)
        /\ Periodic =>
              \A b \in 1..Len(result.periods) :
                 LET rec == result.periods[b]
                 IN  /\ rec.backtest_period.trading_days < 3
                          => IsZero(rec.distribution.skewness)
                     /\ rec.backtest_period.trading_days < 4
                          => IsZero(rec.distribution.kurtosis)

\* C3: on a non-empty series with the column present no error is raised, and
\* the reported Sharpe ratio is the default 0 whenever the excess returns have
\* zero standard deviation (all per-step returns equal, as when each equals the
\* daily risk-free rate) or there are fewer than 2 samples, in the aggregate
\* summary; and in every periodic bucket whose annualized volatility is 0,
\* which has fewer than 2 samples, or when trading_days_per_year <= 0.
C3_SharpeDefault ==
    (pc # "ready" /\ ColumnPresent /\ pnl_data # <<>>) =>
        /\ Returned
        /\ TopLevel =>
              ((Len(pnl_data) < 2 \/ AllStepsEqual(pnl_data))
                  => IsZero(result.performance.sharpe_ratio))
        /\ Periodic =>
              \A b \in 1..Len(result.periods) :
                 LET rec == result.periods[b]
                 IN  (\/ rec.backtest_period.trading_days < 2
                      \/ IsZero(rec.performance.annualized_volatility)
                      \/ args.trading_days_per_year <= 0
                      \/ \A i, j \in RowsIn(pnl_data, PeriodOf(rec.backtest_period.start_date)) :
                            StepReturn(pnl_data, i) = StepReturn(pnl_data, j))
                     => IsZero(rec.performance.sharpe_ratio)

\* C3 witness: the aggregate summary of a series of at least 2 samples whose
\* every per-step return is the (non-zero) daily risk-free rate
C3_Witness ==
    /\ Returned /\ TopLevel
    /\ Len(pnl_data) >= 2
    /\ AllStepsEqual(pnl_data)
    /\ StrictlyIncreasingDates(pnl_data)
    /\ pnl_data[1].PnL = 1
    /\ args.risk_free_rate = Num(AggregateTradingDays, Scale)
    /\ IsZero(result.performance.sharpe_ratio)

\* C4: the reported maximum drawdown is always <= 0, and is 0 whenever the
\* cumulative series it is computed from is non-decreasing.
C4_DrawdownNonPositive ==
    Returned =>
        /\ TopLevel =>
              /\ LeqZero(result.risk.max_drawdown_pct)
              /\ NonDecreasing(PnLColumn(pnl_data)) => IsZero(result.risk.max_drawdown_pct)
        /\ Periodic =>
              \A b \in 1..Len(result.periods) :
                 /\ LeqZero(result.periods[b].risk.max_drawdown)
                 /\ NonDecreasing(CumSum(SeriesValues(BinsOf(pnl_data)[b])))
                       => IsZero(result.periods[b].risk.max_drawdown)

\* the sum of trading_days over the bucket records
RECURSIVE SumTradingDays(_)
SumTradingDays(periods) ==
    IF periods = <<>> THEN 0
    ELSE Head(periods).backtest_period.trading_days + SumTradingDays(Tail(periods))

\* C5: the trading_days of the bucket records add up to the input length, which
\* is the trading_days of the aggregate summary; every record counts at least
\* one sample (only empty buckets are skipped) and exactly the rows of its period.
C5_TradingDaysPartition ==
    Returned =>
        /\ TopLevel => result.backtest_period.trading_days = Len(pnl_data)
        /\ Periodic =>
              /\ SumTradingDays(result.periods) = Len(pnl_data)
              /\ Len(result.periods) = Cardinality(PeriodsOf(pnl_data))
              /\ \A b \in 1..Len(result.periods) :
                    LET rec == result.periods[b]
                    IN  rec.backtest_period.trading_days =
                           Cardinality(RowsIn(pnl_data, PeriodOf(rec.backtest_period.start_date)))

\* C5 witness: a periodic summary of two buckets with an empty period between
\* them, one bucket of one sample and one of several
C5_Witness ==
    /\ Returned /\ Periodic
    /\ Len(pnl_data) >= 3
    /\ Len(result.periods) = 2
    /\ PeriodOf(pnl_data[2].Date) = PeriodOf(pnl_data[1].Date) + 2
    /\ result.periods[1].backtest_period.trading_days = 1

\* C6: for a series whose per-step returns are all zero, annualized
\* volatility, Sharpe ratio, maximum drawdown, skewness and kurtosis are all
\* exactly 0, in the aggregate summary and in every periodic bucket record.
C6_AllZeroSeries ==
    (Returned /\ AllStepsZero(pnl_data)) =>
        /\ TopLevel =>
              /\ IsZero(result.performance.annualized_volatility_pct)
              /\ IsZero(result.performance.sharpe_ratio)
              /\ IsZero(result.risk.max_drawdown_pct)
              /\ IsZero(result.distribution.skewness)
              /\ IsZero(result.distribution.kurtosis)
        /\ Periodic =>
              \A b \in 1..Len(result.periods) :
                 LET rec == result.periods[b]
                 IN  /\ IsZero(rec.performance.annualized_volatility)
                     /\ IsZero(rec.performance.sharpe_ratio)
                     /\ IsZero(rec.risk.max_drawdown)
                     /\ IsZero(rec.distribution.skewness)
                     /\ IsZero(rec.distribution.kurtosis)

\* the aggregate call of the concrete scenario has returned
ScenarioCall ==
    /\ Returned /\ TopLevel
    /\ PnLColumn(pnl_data) = Scenario
    /\ args.initial_capital = INITIAL_CAPITAL
    /\ IsZero(args.risk_free_rate)

\* C7 as stated: the scenario reports trading_days = 5, total_return_pct = 2.5,
\* best_day_pct = 1.5 and max_drawdown_pct = -0.5.
C7_ScenarioAsStated ==
    ScenarioCall =>
        /\ result.backtest_period.trading_days = 5
        /\ result.performance.total_return_pct = Rounded(25, 10, 2)
        /\ result.daily_pnl.best_day_pct = Rounded(15, 10, 2)
        /\ result.risk.max_drawdown_pct = Rounded(-5, 10, 2)

\* C7 amended: the scenario reports trading_days = 5, total_return_pct = 2.5,
\* best_day_pct = 1.5 and max_drawdown_pct = -0.49 (the drawdown is the ratio
\* of portfolio values 101500 / 102000 - 1 = -0.4902 %, rounded to 2 decimals).
C7_ScenarioAmended ==
    ScenarioCall =>
        /\ result.backtest_period.trading_days = 5
        /\ result.performance.total_return_pct = Rounded(25, 10, 2)
        /\ result.daily_pnl.best_day_pct = Rounded(15, 10, 2)
        /\ result.risk.max_drawdown_pct = Rounded(-49, 100, 2)

\* C7 witness: the scenario's call has returned with its drawdown
C7_Witness == ScenarioCall /\ result.risk.max_drawdown_pct.k = "num"

\* C8: a series whose timestamps are not strictly increasing is rejected with
\* ValueError (InvalidInput) by both functions, and nothing is returned.
C8_UnsortedRejected ==
    (pc # "ready" /\ ~StrictlyIncreasingDates(pnl_data)) =>
        pc = "raised" /\ exception = "ValueError"

\* the records of a result for period p
RecordsFor(res, p) ==
    SelectSeq(res.periods, LAMBDA rec : PeriodOf(rec.backtest_period.start_date) = p)

\* the two series have the same rows, with the same per-step returns, in period p
SameInside(df, df2, p) ==
    /\ RowsIn(df, p) = RowsIn(df2, p)
    /\ \A i \in RowsIn(df, p) :
          /\ df[i].Date = df2[i].Date
          /\ StepReturn(df, i) = StepReturn(df2, i)

\* C9: two calls with the same arguments on series whose per-step returns
\* inside a period are identical return the identical record for that period,
\* whatever the per-step returns outside it are.
C9_BucketIsolation ==
    Returned =>
        \A p \in PeriodsOf(pnl_data) :
           SameInside(pnl_data, other_data, p)
              => RecordsFor(result, p) = RecordsFor(other_result, p)

\* C9 witness: the second series differs from the first before a later period
\* of at least 2 samples in which they agree
C9_Witness ==
    /\ Returned
    /\ \E p \in PeriodsOf(pnl_data) :
          /\ SameInside(pnl_data, other_data, p)
          /\ Cardinality(RowsIn(pnl_data, p)) >= 2
          /\ 1 \notin RowsIn(pnl_data, p)
          /\ pnl_data[1].PnL # other_data[1].PnL
          /\ StrictlyIncreasingDates(pnl_data)
          /\ RecordsFor(result, p) # <<>>

\* the reported total_return values of the bucket records (their rounding to 6
\* decimals is exact for multiples of 1/Scale)
TotalReturns(periods) ==
    Tuple([b \in 1..Len(periods) |-> periods[b].performance.total_return])

RECURSIVE SumOver(_, _)
SumOver(df, rows) ==
    IF rows = {} THEN 0
    ELSE LET i == CHOOSE j \in rows : TRUE
         IN  StepReturn(df, i) + SumOver(df, rows \ {i})

\* C10: the total_return values of the bucket records add up to the last
\* cumulative value of the input, which is the aggregate total_return_pct
\* divided by 100; each bucket's total_return is the sum of the per-step returns
\* of its rows (first cumulative value, then differences).
C10_Telescoping ==
    (Returned /\ Periodic) =>
        LET total == FSum(TotalReturns(result.periods))
            top == generate_top_level_summary(pnl_data, args.pnl_column,
                       args.initial_capital, args.risk_free_rate).value
        IN  /\ total = Units(pnl_data[Len(pnl_data)].PnL)
            /\ FMul(total, Int2F(100)) = [top.performance.total_return_pct EXCEPT !.r = NoRound]
            /\ \A b \in 1..Len(result.periods) :
                  LET rec == result.periods[b]
                  IN  [rec.performance.total_return EXCEPT !.r = NoRound] =
                         Units(SumOver(pnl_data,
                                 RowsIn(pnl_data, PeriodOf(rec.backtest_period.start_date))))

\* C10 witness: a time-sorted series that starts at a non-zero cumulative value
\* and spans two buckets
C10_Witness ==
    /\ Returned /\ Periodic
    /\ StrictlyIncreasingDates(pnl_data)
    /\ pnl_data[1].PnL # 0
    /\ Len(result.periods) >= 2
    /\ result.periods[2].backtest_period.trading_days >= 2
====
